---- MODULE Spec2Model ----
(***************************************************************************)
(* Poker-App: the "Add New Game" screen (NewGameScreen: hasDuplicateNames, *)
(* checkTotalBalance, calculatePayments, saveGame) and the game details    *)
(* screen's deleteGame, over the AsyncStorage key 'pokerGames'.            *)
(*                                                                         *)
(* Numbers.  The code computes with IEEE doubles.  Every amount of the     *)
(* model is a multiple of 1/Den of the currency unit with Den a power of   *)
(* two, so every sum, difference and minimum the code takes is exact in a  *)
(* double and the model's integer arithmetic (in units of 1/Den) is the    *)
(* code's arithmetic.  The literal 0.01 is not a multiple of 1/Den; no     *)
(* multiple of 1/Den lies between 1/100 and the double nearest to it, so   *)
(* x > 0.01 is decided as 100 * x > Den.  Number(x.toFixed(2)) is kept as  *)
(* the integer number of cents it denotes.                                 *)
(*                                                                         *)
(* Strings.  A name is the sequence of its characters.  A text field that  *)
(* holds a numeral is kept as the number it denotes (in units of 1/Den);   *)
(* any other text is kept as its characters.                               *)
(***************************************************************************)
EXTENDS Integers, Sequences, FiniteSets, TLC

(* ------------------------------ bounds -------------------------------- *)

\* Largest game whose players all buy in Stake and cash out whole amounts.
MaxPlayers == 5
\* Largest game whose amounts differ from the stake by fractions of a cent.
MaxFinePlayers == 3
\* Largest game whose names and fields are arbitrary text.
MaxRawPlayers == 2
\* Whole cash-outs range over 0..MaxCashOut currency units.
MaxCashOut == 5
\* Fine cash-outs range over Stake - MaxFine/Den .. Stake + MaxFine/Den.
MaxFine == 3
\* Amounts are multiples of 1 / 2^DenBits of the currency unit.
DenBits == 8
\* Date.now() advances by at most MaxTick between two reads of the clock.
MaxTick == 1
\* Concurrent saveGame invocations, and details screens (each deletes once).
MaxSaves == 2
MaxDeletes == 1

Den == 2 ^ DenBits
Stake == (MaxCashOut + 1) \div 2

(* ------------------------------ strings ------------------------------- *)

\* The model's alphabet: these letters, their lower case, and the blank " ".
UpperCase == <<"A", "B", "C", "D", "E", "F", "G", "H">>
LowerCase == <<"a", "b", "c", "d", "e", "f", "g", "h">>

\* String.prototype.toLowerCase on one character.
LowerChar(c) ==
    IF \E i \in 1..Len(UpperCase) : UpperCase[i] = c
    THEN LowerCase[CHOOSE i \in 1..Len(UpperCase) : UpperCase[i] = c]
    ELSE c

toLowerCase(s) == [i \in 1..Len(s) |-> LowerChar(s[i])]

RECURSIVE TrimStart(_)
TrimStart(s) ==
    IF s # <<>> /\ Head(s) = " " THEN TrimStart(Tail(s)) ELSE s

RECURSIVE TrimEnd(_)
TrimEnd(s) ==
    IF s # <<>> /\ s[Len(s)] = " " THEN TrimEnd(SubSeq(s, 1, Len(s) - 1)) ELSE s

\* String.prototype.trim
trim(s) == TrimEnd(TrimStart(s))

\* A text field: a numeral (numeric, with the number it denotes) or other text.
Numeral(k) == [numeric |-> TRUE, units |-> k, chars |-> <<>>]
Text(s) == [numeric |-> FALSE, units |-> 0, chars |-> s]

\* field.trim() !== ''  (a numeral has at least one digit)
TrimmedNonEmpty(f) == f.numeric \/ trim(f.chars) # <<>>

(* ------------------------------ numbers ------------------------------- *)

\* A double: NaN, or a finite multiple of 1/Den.
Num(v) == [nan |-> FALSE, v |-> v]
NaN == [nan |-> TRUE, v |-> 0]

\* parseFloat: the number a numeral denotes; NaN for '', blanks and letters.
parseFloat(f) == IF f.numeric THEN Num(f.units) ELSE NaN

\* x || 0 : NaN and 0 are falsy.
OrZero(x) == IF x.nan THEN Num(0) ELSE x

FSub(a, b) == IF a.nan \/ b.nan THEN NaN ELSE Num(a.v - b.v)
\* Comparisons with NaN are false.
FGt(a, b) == ~a.nan /\ ~b.nan /\ a.v > b.v
FLt(a, b) == ~a.nan /\ ~b.nan /\ a.v < b.v
FAbs(a) == IF a.nan THEN NaN ELSE Num(IF a.v < 0 THEN -a.v ELSE a.v)
\* Math.min: NaN if either argument is NaN.
FMin(a, b) == IF a.nan \/ b.nan THEN NaN ELSE Num(IF a.v < b.v THEN a.v ELSE b.v)

\* The cents of Number(x.toFixed(2)) for a finite x of v units: the integer n with
\* n/100 nearest to |x|, the larger n on a tie, with the sign of x.
ToFixed2(v) ==
    IF v >= 0 THEN (200 * v + Den) \div (2 * Den)
    ELSE -((200 * (-v) + Den) \div (2 * Den))

\* x > 0.01 for a finite x of v units.
AboveCent(v) == 100 * v > Den

(* ----------------------------- validation ----------------------------- *)

\* hasDuplicateNames: new Set(names).size !== names.length over the names
\* lower-cased and trimmed.
hasDuplicateNamesNever(ps) == Len(ps) # Len(ps)

hasDuplicateNames(ps) ==
    Cardinality({trim(toLowerCase(ps[i].name)) : i \in 1..Len(ps)}) # Len(ps)

\* saveGame's players.every(...): each name and field non-empty once trimmed.
isValid(ps) ==
    \A i \in 1..Len(ps) :
        /\ trim(ps[i].name) # <<>>
        /\ TrimmedNonEmpty(ps[i].buyIn)
        /\ TrimmedNonEmpty(ps[i].cashOut)

\* players.reduce((sum, player) => sum + (parseFloat(player.buyIn) || 0), 0)
RECURSIVE buyInTotal(_)
buyInTotal(ps) ==
    IF ps = <<>> THEN 0
    ELSE buyInTotal(SubSeq(ps, 1, Len(ps) - 1))
           + OrZero(parseFloat(ps[Len(ps)].buyIn)).v

RECURSIVE cashOutTotal(_)
cashOutTotal(ps) ==
    IF ps = <<>> THEN 0
    ELSE cashOutTotal(SubSeq(ps, 1, Len(ps) - 1))
           + OrZero(parseFloat(ps[Len(ps)].cashOut)).v

\* checkTotalBalance's result.
checkTotalBalanceOfDifference(ps) ==
    ToFixed2(buyInTotal(ps) - cashOutTotal(ps)) = 0

checkTotalBalance(ps) ==
    ToFixed2(buyInTotal(ps)) = ToFixed2(cashOutTotal(ps))

(* ------------------------- calculatePayments -------------------------- *)

\* players.map(player => ({name, balance: parseFloat(cashOut) - parseFloat(buyIn)}))
playerBalances(ps) ==
    [i \in 1..Len(ps) |->
        [name |-> ps[i].name,
         balance |-> FSub(parseFloat(ps[i].cashOut), parseFloat(ps[i].buyIn))]]

\* Array.prototype.sort is stable; dir = 1 is the comparator a.balance - b.balance,
\* dir = -1 is b.balance - a.balance.  The balances sorted are never NaN.
RECURSIVE InsertSorted(_, _, _)
InsertSorted(s, x, dir) ==
    IF s = <<>> THEN <<x>>
    ELSE IF dir * (Head(s).balance.v - x.balance.v) <= 0
         THEN <<Head(s)>> \o InsertSorted(Tail(s), x, dir)
         ELSE <<x>> \o s

RECURSIVE SortByBalance(_, _)
SortByBalance(s, dir) ==
    IF s = <<>> THEN <<>>
    ELSE InsertSorted(SortByBalance(SubSeq(s, 1, Len(s) - 1), dir), s[Len(s)], dir)

IsWinner(p) == FGt(p.balance, Num(0))
IsLoser(p) == FLt(p.balance, Num(0))

\* playerBalances.filter(p => p.balance > 0).sort((a, b) => b.balance - a.balance)
winnersOfUnsorted(ps) == SelectSeq(playerBalances(ps), IsWinner)

winnersOf(ps) == SortByBalance(SelectSeq(playerBalances(ps), IsWinner), -1)

\* playerBalances.filter(p => p.balance < 0).sort((a, b) => a.balance - b.balance)
losersOf(ps) == SortByBalance(SelectSeq(playerBalances(ps), IsLoser), 1)

\* while (remainingDebt > 0.01 && winnerIndex < winners.length); winnerIndex
\* counts from 0 as in the code.
WhileCond(debt, wi, ws) == ~debt.nan /\ AboveCent(debt.v) /\ wi < Len(ws)

\* if (payment > 0)
PaymentPositiveAlways(payment) == TRUE

PaymentPositive(payment) == FGt(payment, Num(0))

\* {from, to, amount: Number(payment.toFixed(2))}, the amount in cents.
PaymentSwapped(loser, winner, payment) ==
    [from |-> winner.name, to |-> loser.name, amount |-> ToFixed2(payment.v)]

Payment(loser, winner, payment) ==
    [from |-> loser.name, to |-> winner.name, amount |-> ToFixed2(payment.v)]

(* ------------------------------- inputs ------------------------------- *)

\* The name typed for the i-th player of a game with distinct names.
SeatName(i) == <<UpperCase[i]>>

\* A game of whole amounts: everybody buys in Stake; c[i] is the i-th cash-out.
WholeGame(c) ==
    [i \in DOMAIN c |-> [name |-> SeatName(i),
                         buyIn |-> Numeral(Stake * Den),
                         cashOut |-> Numeral(c[i] * Den)]]

\* 0.125, an amount half-way between two cents (12.5 cents).
Tie == Den \div 8

\* A game whose amounts carry more than two fractional digits: the i-th player
\* cashes out the stake plus d[i]/Den and buys in the stake, but for the first
\* player, who buys in b[1]/Den more and cashes out b[2]/Den more.  With b[1] or
\* b[2] at Tie a total lies half-way between two cents.
FineBases == {<<0, 0>>, <<1, 0>>, <<Tie, Tie>>, <<Tie + 1, Tie>>}
FineGame(b, d) ==
    [i \in DOMAIN d |->
        [name |-> SeatName(i),
         buyIn |-> Numeral(Stake * Den + (IF i = 1 THEN b[1] ELSE 0)),
         cashOut |-> Numeral(Stake * Den + d[i] + (IF i = 1 THEN b[2] ELSE 0))]]

\* Arbitrary text: names that are empty or collide once lower-cased and trimmed,
\* fields that are empty, blank or no number.
RawNames == {<<>>, <<"A">>, <<"a", " ">>, <<"B">>}
RawBuyIns == {Text(<<"x">>), Numeral(0), Numeral(Den)}
RawCashOuts == {Text(<<" ">>), Numeral(0), Numeral(Den)}
RawEntries == [name : RawNames, buyIn : RawBuyIns, cashOut : RawCashOuts]

(* -------------------------------- state ------------------------------- *)

VARIABLES
    players,            \* useState<Player[]>: the list on the screen
    showDuplicateModal, \* useState(false)
    showBalanceModal,   \* useState(false)
    alert,              \* the last Alert.alert message, "" for none
    totalBuyIn,         \* useState(0), set by checkTotalBalance
    totalCashOut,       \* useState(0), set by checkTotalBalance
    storage,            \* AsyncStorage 'pokerGames': null, or the games stored
    now,                \* Date.now()
    pc,                 \* pc[t]: where saveGame invocation t stands
    existingGames,      \* saveGame's existingGames
    winners,            \* calculatePayments' winners (balances are updated in place)
    losers,             \* calculatePayments' losers
    loserIndex,         \* the forEach position, from 1
    remainingDebt,      \* the current loser's remainingDebt
    winnerIndex,        \* the current loser's winnerIndex, from 0
    payments,           \* calculatePayments' payments
    updatedGames,       \* saveGame's updatedGames
    savePlayers,        \* saveGame's players: the list of the render it was created in
    dpc,                \* dpc[d]: where details screen d stands
    dtarget,            \* the id of the game shown by the details screen
    gamesStr,           \* gamesStr of loadGameDetails, then of the Delete button
    dgames              \* the Delete button's updatedGames

vars == <<players, showDuplicateModal, showBalanceModal, alert, totalBuyIn,
          totalCashOut, storage, now, pc, existingGames, winners, losers,
          loserIndex, remainingDebt, winnerIndex, payments, updatedGames,
          savePlayers, dpc, dtarget, gamesStr, dgames>>

screenVars == <<showDuplicateModal, showBalanceModal, alert, totalBuyIn, totalCashOut>>
calcVars == <<winners, losers, loserIndex, remainingDebt, winnerIndex, payments>>
deleteVars == <<dpc, dtarget, gamesStr, dgames>>

Saves == 1..MaxSaves
Deletes == 1..MaxDeletes

\* AsyncStorage holds null or a JSON text; JSON.stringify and JSON.parse give back
\* the games written (strings and finite numbers only), so the games are kept.
NullItem == [isNull |-> TRUE, games |-> <<>>]
Item(gs) == [isNull |-> FALSE, games |-> gs]

\* date.toISOString() of the date picker's untouched date.
GameDate == "date"

InitWith(ps) ==
    /\ players = ps
    /\ showDuplicateModal = FALSE
    /\ showBalanceModal = FALSE
    /\ alert = ""
    /\ totalBuyIn = 0
    /\ totalCashOut = 0
    /\ storage = NullItem
    /\ now = 1
    /\ pc = [t \in Saves |-> "idle"]
    /\ existingGames = [t \in Saves |-> <<>>]
    /\ winners = [t \in Saves |-> <<>>]
    /\ losers = [t \in Saves |-> <<>>]
    /\ loserIndex = [t \in Saves |-> 0]
    /\ remainingDebt = [t \in Saves |-> Num(0)]
    /\ winnerIndex = [t \in Saves |-> 0]
    /\ payments = [t \in Saves |-> <<>>]
    /\ updatedGames = [t \in Saves |-> <<>>]
    /\ savePlayers = [t \in Saves |-> <<>>]
    /\ dpc = [d \in Deletes |-> "idle"]
    /\ dtarget = [d \in Deletes |-> 0]
    /\ gamesStr = [d \in Deletes |-> NullItem]
    /\ dgames = [d \in Deletes |-> <<>>]

(* ------------------------------ saveGame ------------------------------ *)

\* JavaScript runs one callback at a time: while an invocation is inside
\* calculatePayments no other callback starts or resumes.  The reads and writes of
\* AsyncStorage happen outside the JavaScript thread.
Running(t) == pc[t] \in {"forEach", "while"}
ThreadFree == \A t \in Saves : ~Running(t)

\* saveGame up to its first await: the three checks, each with its early return,
\* then the call of AsyncStorage.getItem.  The saveGame pressed is the one of the
\* current render: players, in it and in the functions it calls, is the list on
\* the screen at the press, whatever is typed while it awaits.
saveGame(t) ==
    /\ pc[t] = "idle"
    /\ ThreadFree
    /\ savePlayers' = [savePlayers EXCEPT ![t] = players]
    /\ IF hasDuplicateNames(players)
       THEN /\ showDuplicateModal' = TRUE
            /\ pc' = [pc EXCEPT ![t] = "duplicate"]
            /\ UNCHANGED <<showBalanceModal, alert, totalBuyIn, totalCashOut>>
       ELSE IF ~isValid(players)
       THEN /\ alert' = "Please fill in all player information"
            /\ pc' = [pc EXCEPT ![t] = "incomplete"]
            /\ UNCHANGED <<showDuplicateModal, showBalanceModal, totalBuyIn, totalCashOut>>
       ELSE /\ totalBuyIn' = buyInTotal(players)
            /\ totalCashOut' = cashOutTotal(players)
            /\ IF ~checkTotalBalance(players)
               THEN /\ showBalanceModal' = TRUE
                    /\ pc' = [pc EXCEPT ![t] = "unbalanced"]
               ELSE /\ pc' = [pc EXCEPT ![t] = "getItem"]
                    /\ UNCHANGED showBalanceModal
            /\ UNCHANGED <<showDuplicateModal, alert>>
    /\ UNCHANGED <<players, storage, now, existingGames, updatedGames>>
    /\ UNCHANGED calcVars
    /\ UNCHANGED deleteVars

\* await AsyncStorage.getItem('pokerGames'); existingGamesStr ? JSON.parse(...) : []
getItem(t) ==
    /\ pc[t] = "getItem"
    /\ existingGames' = [existingGames EXCEPT ![t] = storage.games]
    /\ pc' = [pc EXCEPT ![t] = "calculatePayments"]
    /\ UNCHANGED <<players, storage, now, updatedGames, savePlayers>>
    /\ UNCHANGED screenVars
    /\ UNCHANGED calcVars
    /\ UNCHANGED deleteVars

\* calculatePayments, lines 70-82: the balances, the two sorted lists, no payments.
calculatePaymentsStart(t) ==
    /\ pc[t] = "calculatePayments"
    /\ ThreadFree
    /\ winners' = [winners EXCEPT ![t] = winnersOf(savePlayers[t])]
    /\ losers' = [losers EXCEPT ![t] = losersOf(savePlayers[t])]
    /\ payments' = [payments EXCEPT ![t] = <<>>]
    /\ loserIndex' = [loserIndex EXCEPT ![t] = 1]
    /\ pc' = [pc EXCEPT ![t] = "forEach"]
    /\ UNCHANGED <<players, storage, now, existingGames, updatedGames,
                   savePlayers, remainingDebt, winnerIndex>>
    /\ UNCHANGED screenVars
    /\ UNCHANGED deleteVars

\* losers.forEach(loser => {...}): the callback's first two lines for the next loser.
forEachLoserNoReset(t) ==
    /\ pc[t] = "forEach"
    /\ loserIndex[t] <= Len(losers[t])
    /\ remainingDebt' = [remainingDebt EXCEPT ![t] = FAbs(losers[t][loserIndex[t]].balance)]
    /\ pc' = [pc EXCEPT ![t] = "while"]
    /\ UNCHANGED <<players, storage, now, existingGames, updatedGames,
                   savePlayers, winners, losers, loserIndex, payments, winnerIndex>>
    /\ UNCHANGED screenVars
    /\ UNCHANGED deleteVars

forEachLoser(t) ==
    /\ pc[t] = "forEach"
    /\ loserIndex[t] <= Len(losers[t])
    /\ remainingDebt' = [remainingDebt EXCEPT ![t] = FAbs(losers[t][loserIndex[t]].balance)]
    /\ winnerIndex' = [winnerIndex EXCEPT ![t] = 0]
    /\ pc' = [pc EXCEPT ![t] = "while"]
    /\ UNCHANGED <<players, storage, now, existingGames, updatedGames,
                   savePlayers, winners, losers, loserIndex, payments>>
    /\ UNCHANGED screenVars
    /\ UNCHANGED deleteVars

\* One iteration of the while loop, lines 90-107.
whileBody(t) ==
    /\ pc[t] = "while"
    /\ WhileCond(remainingDebt[t], winnerIndex[t], winners[t])
    /\ LET loser == losers[t][loserIndex[t]]
           winner == winners[t][winnerIndex[t] + 1]
           payment == FMin(remainingDebt[t], winner.balance)
       IN  IF PaymentPositive(payment)
           THEN /\ payments' = [payments EXCEPT
                                  ![t] = Append(@, Payment(loser, winner, payment))]
                /\ remainingDebt' = [remainingDebt EXCEPT ![t] = FSub(@, payment)]
                /\ winners' = [winners EXCEPT
                                 ![t][winnerIndex[t] + 1].balance =
                                     FSub(winner.balance, payment)]
           ELSE UNCHANGED <<payments, remainingDebt, winners>>
    /\ winnerIndex' = [winnerIndex EXCEPT ![t] = @ + 1]
    /\ UNCHANGED <<players, storage, now, existingGames, updatedGames,
                   savePlayers, losers, loserIndex, pc>>
    /\ UNCHANGED screenVars
    /\ UNCHANGED deleteVars

\* The while condition fails: the callback returns and forEach moves on.
whileExit(t) ==
    /\ pc[t] = "while"
    /\ ~WhileCond(remainingDebt[t], winnerIndex[t], winners[t])
    /\ loserIndex' = [loserIndex EXCEPT ![t] = @ + 1]
    /\ pc' = [pc EXCEPT ![t] = "forEach"]
    /\ UNCHANGED <<players, storage, now, existingGames, updatedGames,
                   savePlayers, winners, losers, remainingDebt, winnerIndex, payments>>
    /\ UNCHANGED screenVars
    /\ UNCHANGED deleteVars

\* return payments; then saveGame lines 147-155: the new game, with
\* id: Date.now().toString(), appended to the games read, and setItem called.
newGame(t) ==
    /\ pc[t] = "forEach"
    /\ loserIndex[t] > Len(losers[t])
    /\ \E tick \in 0..MaxTick :
        /\ now' = now + tick
        /\ updatedGames' = [updatedGames EXCEPT
                              ![t] = Append(existingGames[t],
                                            [id |-> now + tick,
                                             date |-> GameDate,
                                             players |-> savePlayers[t],
                                             payments |-> payments[t]])]
    /\ pc' = [pc EXCEPT ![t] = "setItem"]
    /\ UNCHANGED <<players, storage, existingGames, savePlayers>>
    /\ UNCHANGED screenVars
    /\ UNCHANGED calcVars
    /\ UNCHANGED deleteVars

\* await AsyncStorage.setItem('pokerGames', JSON.stringify(updatedGames)); router.push('/')
setItem(t) ==
    /\ pc[t] = "setItem"
    /\ storage' = Item(updatedGames[t])
    /\ pc' = [pc EXCEPT ![t] = "done"]
    /\ UNCHANGED <<players, now, existingGames, updatedGames, savePlayers>>
    /\ UNCHANGED screenVars
    /\ UNCHANGED calcVars
    /\ UNCHANGED deleteVars

SaveStep(t) ==
    \/ saveGame(t)
    \/ getItem(t)
    \/ calculatePaymentsStart(t)
    \/ forEachLoser(t)
    \/ whileBody(t)
    \/ whileExit(t)
    \/ newGame(t)
    \/ setItem(t)

(* ------------------------- addPlayer, updatePlayer -------------------- *)

\* The entry addPlayer appends, and each of the two the screen starts with.
EmptyPlayer == [name |-> <<>>, buyIn |-> Text(<<>>), cashOut |-> Text(<<>>)]

\* setPlayers([...players, {name: '', buyIn: '', cashOut: ''}]); the list is kept
\* to MaxPlayers entries.
addPlayer ==
    /\ ThreadFree
    /\ Len(players) < MaxPlayers
    /\ players' = Append(players, EmptyPlayer)
    /\ UNCHANGED <<storage, now, pc, existingGames, updatedGames, savePlayers>>
    /\ UNCHANGED screenVars
    /\ UNCHANGED calcVars
    /\ UNCHANGED deleteVars

\* newPlayers[index] = {...newPlayers[index], [field]: value}; index from 1, the
\* index of an input on the screen.
updatePlayer(index, field, value) ==
    /\ ThreadFree
    /\ index \in 1..Len(players)
    /\ players' = [players EXCEPT ![index][field] = value]
    /\ UNCHANGED <<storage, now, pc, existingGames, updatedGames, savePlayers>>
    /\ UNCHANGED screenVars
    /\ UNCHANGED calcVars
    /\ UNCHANGED deleteVars

(* --------------------------- the modals' OK --------------------------- *)

\* The duplicate-names modal's OK button, on the screen while the modal is shown:
\* onPress={() => setShowDuplicateModal(false)}
duplicateModalOk ==
    /\ ThreadFree
    /\ showDuplicateModal
    /\ showDuplicateModal' = FALSE
    /\ UNCHANGED <<players, storage, now, pc, existingGames, updatedGames, savePlayers>>
    /\ UNCHANGED <<showBalanceModal, alert, totalBuyIn, totalCashOut>>
    /\ UNCHANGED calcVars
    /\ UNCHANGED deleteVars

\* The balance modal's OK button, on the screen while the modal is shown:
\* onPress={() => setShowBalanceModal(false)}
balanceModalOk ==
    /\ ThreadFree
    /\ showBalanceModal
    /\ showBalanceModal' = FALSE
    /\ UNCHANGED <<players, storage, now, pc, existingGames, updatedGames, savePlayers>>
    /\ UNCHANGED <<showDuplicateModal, alert, totalBuyIn, totalCashOut>>
    /\ UNCHANGED calcVars
    /\ UNCHANGED deleteVars

(* ----------------------------- deleteGame ----------------------------- *)

\* The details screen mounted for the game id: useEffect calls loadGameDetails, which
\* runs up to its await, AsyncStorage.getItem called.
loadGameDetails(d) ==
    /\ dpc[d] = "idle"
    /\ ThreadFree
    /\ \E id \in 1..(1 + MaxSaves * MaxTick) :
          dtarget' = [dtarget EXCEPT ![d] = id]
    /\ dpc' = [dpc EXCEPT ![d] = "loadGetItem"]
    /\ UNCHANGED <<players, storage, now, pc, existingGames, updatedGames, savePlayers,
                   gamesStr, dgames>>
    /\ UNCHANGED screenVars
    /\ UNCHANGED calcVars

\* await AsyncStorage.getItem('pokerGames') of loadGameDetails: the item read.
loadGetItem(d) ==
    /\ dpc[d] = "loadGetItem"
    /\ gamesStr' = [gamesStr EXCEPT ![d] = storage]
    /\ dpc' = [dpc EXCEPT ![d] = "find"]
    /\ UNCHANGED <<players, storage, now, pc, existingGames, updatedGames, savePlayers,
                   dtarget, dgames>>
    /\ UNCHANGED screenVars
    /\ UNCHANGED calcVars

\* loadGameDetails resumed: if (gamesStr), games.find(g => g.id === id) and, if
\* found, setGame(foundGame), which puts the Delete Game button on the screen;
\* otherwise game stays null and the screen stays at "Loading...".
loadFind(d) ==
    /\ dpc[d] = "find"
    /\ ThreadFree
    /\ IF /\ ~gamesStr[d].isNull
          /\ \E k \in 1..Len(gamesStr[d].games) : gamesStr[d].games[k].id = dtarget[d]
       THEN dpc' = [dpc EXCEPT ![d] = "game"]
       ELSE dpc' = [dpc EXCEPT ![d] = "loading"]
    /\ UNCHANGED <<players, storage, now, pc, existingGames, updatedGames, savePlayers,
                   dtarget, gamesStr, dgames>>
    /\ UNCHANGED screenVars
    /\ UNCHANGED calcVars

\* deleteGame(), the Delete Game button's onPress: the confirmation is shown.
deleteGame(d) ==
    /\ dpc[d] = "game"
    /\ ThreadFree
    /\ alert' = "Are you sure you want to delete this game?"
    /\ dpc' = [dpc EXCEPT ![d] = "confirm"]
    /\ UNCHANGED <<players, storage, now, pc, existingGames, updatedGames, savePlayers,
                   dtarget, gamesStr, dgames>>
    /\ UNCHANGED <<showDuplicateModal, showBalanceModal, totalBuyIn, totalCashOut>>
    /\ UNCHANGED calcVars

\* The confirmation's Delete button, its onPress up to its first await:
\* AsyncStorage.getItem called.
onPress(d) ==
    /\ dpc[d] = "confirm"
    /\ ThreadFree
    /\ dpc' = [dpc EXCEPT ![d] = "getItem"]
    /\ UNCHANGED <<players, storage, now, pc, existingGames, updatedGames, savePlayers,
                   dtarget, gamesStr, dgames>>
    /\ UNCHANGED screenVars
    /\ UNCHANGED calcVars

\* await AsyncStorage.getItem('pokerGames'): the item read, the handler suspended.
deleteGetItem(d) ==
    /\ dpc[d] = "getItem"
    /\ gamesStr' = [gamesStr EXCEPT ![d] = storage]
    /\ dpc' = [dpc EXCEPT ![d] = "filter"]
    /\ UNCHANGED <<players, storage, now, pc, existingGames, updatedGames, savePlayers,
                   dtarget, dgames>>
    /\ UNCHANGED screenVars
    /\ UNCHANGED calcVars

\* The handler resumed with the item read: if (gamesStr), the games filtered by
\* g.id !== id and setItem called; nothing more when the item was null.
deleteFilter(d) ==
    /\ dpc[d] = "filter"
    /\ ThreadFree
    /\ IF gamesStr[d].isNull
       THEN /\ dpc' = [dpc EXCEPT ![d] = "done"]
            /\ UNCHANGED dgames
       ELSE /\ dgames' = [dgames EXCEPT
                            ![d] = SelectSeq(gamesStr[d].games,
                                             LAMBDA g : g.id # dtarget[d])]
            /\ dpc' = [dpc EXCEPT ![d] = "setItem"]
    /\ UNCHANGED <<players, storage, now, pc, existingGames, updatedGames, savePlayers,
                   dtarget, gamesStr>>
    /\ UNCHANGED screenVars
    /\ UNCHANGED calcVars

\* await AsyncStorage.setItem('pokerGames', JSON.stringify(updatedGames)); router.push('/')
deleteSetItem(d) ==
    /\ dpc[d] = "setItem"
    /\ storage' = Item(dgames[d])
    /\ dpc' = [dpc EXCEPT ![d] = "done"]
    /\ UNCHANGED <<players, now, pc, existingGames, updatedGames, savePlayers,
                   dtarget, gamesStr, dgames>>
    /\ UNCHANGED screenVars
    /\ UNCHANGED calcVars

DeleteStep(d) ==
    \/ loadGameDetails(d)
    \/ loadGetItem(d)
    \/ loadFind(d)
    \/ deleteGame(d)
    \/ onPress(d)
    \/ deleteGetItem(d)
    \/ deleteFilter(d)
    \/ deleteSetItem(d)

(* --------------------------- specifications --------------------------- *)

\* One press of Save Game on any game of the three families, a list addPlayer and
\* updatePlayer build from the two entries the screen starts with; players may be
\* added before the press, while saveGame awaits and after it, and a modal the
\* press shows is closed with its OK button.
Init ==
    \/ \E n \in 2..MaxPlayers : \E c \in [1..n -> 0..MaxCashOut] :
          InitWith(WholeGame(c))
    \/ \E n \in 2..MaxFinePlayers :
          \E b \in FineBases, d \in [1..n -> (-MaxFine)..MaxFine] :
              InitWith(FineGame(b, d))
    \/ \E n \in 2..MaxRawPlayers : \E ps \in [1..n -> RawEntries] :
          InitWith(ps)

Next ==
    \/ SaveStep(1)
    \/ addPlayer
    \/ duplicateModalOk
    \/ balanceModalOk

Spec == Init /\ [][Next]_vars

\* The cash-outs retyped in SpecStore.
StoreCashOuts == {Numeral(0), Numeral(Stake * Den), Numeral(2 * Stake * Den)}

\* Save Game pressed up to MaxSaves times and Delete up to MaxDeletes times on a
\* two-player game whose cash-outs are retyped meanwhile, the invocations
\* overlapping as their awaits allow.  The two names differ, so of the two modals
\* only the balance modal is ever shown and closed.
InitStore ==
    \E c \in [1..2 -> {0, Stake, 2 * Stake}] : InitWith(WholeGame(c))

NextStore ==
    \/ \E t \in Saves : SaveStep(t)
    \/ \E d \in Deletes : DeleteStep(d)
    \/ \E index \in 1..Len(players), value \in StoreCashOuts :
          updatePlayer(index, "cashOut", value)
    \/ balanceModalOk

SpecStore == InitStore /\ [][NextStore]_vars

(* ------------------------------- claims ------------------------------- *)

\* The claims are about the one saveGame invocation of Spec and the list it works
\* on, savePlayers[1].  calculatePayments has returned in it.
Returned == pc[1] \in {"setItem", "done"}

AllNumeric(ps) == \A i \in 1..Len(ps) : ps[i].buyIn.numeric /\ ps[i].cashOut.numeric

Abs(x) == IF x < 0 THEN -x ELSE x

\* The cents of the transfers of pays sent by name, added up.
RECURSIVE SumFrom(_, _)
SumFrom(pays, name) ==
    IF pays = <<>> THEN 0
    ELSE (IF Head(pays).from = name THEN Head(pays).amount ELSE 0)
           + SumFrom(Tail(pays), name)

\* The cents of the transfers of pays received by name, added up.
RECURSIVE SumTo(_, _)
SumTo(pays, name) ==
    IF pays = <<>> THEN 0
    ELSE (IF Head(pays).to = name THEN Head(pays).amount ELSE 0)
           + SumTo(Tail(pays), name)

PaidBy(name) == SumFrom(payments[1], name)
PaidTo(name) == SumTo(payments[1], name)

\* cents/100 and units/Den differ by at most 0.01.
WithinCent(cents, units) == Abs(cents * Den - 100 * units) <= Den

\* C1 (as claimed): once calculatePayments has returned for a list that passed the
\* three checks, every player with a negative balance is the sender of transfers
\* adding up to abs(balance) within 0.01, and every player with a positive balance
\* the receiver of transfers adding up to the balance within 0.01.  Stated for the
\* lists whose fields are all numerals, amounts with more than two fractional
\* digits included.
C1_Conservation ==
    (Returned /\ AllNumeric(savePlayers[1])) =>
        \A i \in 1..Len(savePlayers[1]) :
            LET b == playerBalances(savePlayers[1])[i].balance.v
            IN  /\ b < 0 => WithinCent(PaidBy(savePlayers[1][i].name), -b)
                /\ b > 0 => WithinCent(PaidTo(savePlayers[1][i].name), b)

\* C3 (as claimed): every transfer recorded for a list that passed the three checks
\* has an amount that, rounded to 2 fractional digits, is strictly greater than 0.
C3_NoZeroTransfer ==
    \A i \in 1..Len(payments[1]) : payments[1][i].amount > 0

\* The one saveGame invocation of Spec passed the three checks.
Passed == pc[1] \in {"getItem", "calculatePayments", "forEach", "while", "setItem", "done"}
Rejected == pc[1] \in {"duplicate", "incomplete", "unbalanced"}

RECURSIVE SumBalances(_)
SumBalances(bs) ==
    IF bs = <<>> THEN 0 ELSE Head(bs).balance.v + SumBalances(Tail(bs))

\* C4 (as claimed): saveGame gets past its checks only for a list whose balances, as
\* calculatePayments computes them, are numbers that sum to 0 within 0.01; a list
\* that fails a check computes no payments and leaves the stored games alone.
C4_ZeroSumGate ==
    /\ Passed =>
         /\ \A i \in 1..Len(savePlayers[1]) : ~playerBalances(savePlayers[1])[i].balance.nan
         /\ 100 * Abs(SumBalances(playerBalances(savePlayers[1]))) <= Den
    /\ Rejected => (storage = NullItem /\ payments[1] = <<>> /\ ~ENABLED SaveStep(1))

\* C5 (as claimed): a list with an empty name, or with a buy-in or cash-out that
\* does not parse as a number, never gets past validation.
C5_Completeness ==
    (\E i \in 1..Len(savePlayers[1]) :
        \/ savePlayers[1][i].name = <<>>
        \/ parseFloat(savePlayers[1][i].buyIn).nan
        \/ parseFloat(savePlayers[1][i].cashOut).nan)
    => ~Passed

\* C4 holds of the lists whose fields are all numerals: only a field that is no
\* number lets an unbalanced list through.
ZeroSumGateNumeric == AllNumeric(savePlayers[1]) => C4_ZeroSumGate

\* The balance calculatePayments computes for player i, and for the player named.
BalanceOf(i) == playerBalances(savePlayers[1])[i].balance
BalanceNamed(name) ==
    BalanceOf(CHOOSE i \in 1..Len(savePlayers[1]) : savePlayers[1][i].name = name)

\* C6: no transfer of a list that passed hasDuplicateNames has from equal to to.
C6_NoSelfPayment ==
    \A k \in 1..Len(payments[1]) : payments[1][k].from # payments[1][k].to

\* C6's case: calculatePayments returned two transfers or more.
C6_Witness == Returned /\ Len(payments[1]) >= 2

\* C8: every transfer goes from a player with a negative balance to a player with
\* a positive balance; a player whose buy-in equals the cash-out is in no transfer;
\* when every balance is 0 the list returned is empty.
C8_Endpoints ==
    /\ \A k \in 1..Len(payments[1]) :
         /\ \E i \in 1..Len(savePlayers[1]) : savePlayers[1][i].name = payments[1][k].from
         /\ \E i \in 1..Len(savePlayers[1]) : savePlayers[1][i].name = payments[1][k].to
         /\ \A i \in 1..Len(savePlayers[1]) :
              /\ savePlayers[1][i].name = payments[1][k].from => FLt(BalanceOf(i), Num(0))
              /\ savePlayers[1][i].name = payments[1][k].to => FGt(BalanceOf(i), Num(0))
    /\ \A i \in 1..Len(savePlayers[1]) :
         savePlayers[1][i].buyIn = savePlayers[1][i].cashOut =>
            \A k \in 1..Len(payments[1]) :
                /\ payments[1][k].from # savePlayers[1][i].name
                /\ payments[1][k].to # savePlayers[1][i].name
    /\ (Returned /\ \A i \in 1..Len(savePlayers[1]) : BalanceOf(i) = Num(0))
         => payments[1] = <<>>

\* C8's case: transfers were returned for a list with a player who broke even.
C8_Witness ==
    /\ Returned
    /\ payments[1] # <<>>
    /\ \E i \in 1..Len(savePlayers[1]) : savePlayers[1][i].buyIn = savePlayers[1][i].cashOut

\* C8's other case: everybody broke even and calculatePayments returned.
C8_WitnessAllZero ==
    /\ Returned
    /\ Len(savePlayers[1]) >= 2
    /\ \A i \in 1..Len(savePlayers[1]) : BalanceOf(i) = Num(0)

\* C9: the transfers are grouped by debtor, the debtors come most negative balance
\* first, and within one debtor the creditors come largest initial balance first.
C9_Order ==
    LET ps == payments[1]
    IN  /\ \A j, k \in 1..Len(ps) : j < k =>
              /\ BalanceNamed(ps[j].from).v <= BalanceNamed(ps[k].from).v
              /\ ps[j].from = ps[k].from =>
                    BalanceNamed(ps[j].to).v >= BalanceNamed(ps[k].to).v
        /\ \A j, k, l \in 1..Len(ps) :
              (j < k /\ k < l /\ ps[j].from = ps[l].from) => ps[k].from = ps[j].from

\* C9's case, scenario B in the stake's units: A +2, B +1, C -3 (typed in the order
\* B, C, A) gives exactly C -> A 2.00, C -> B 1.00.
C9_Witness ==
    /\ Returned
    /\ Len(savePlayers[1]) = 3
    /\ BalanceOf(1) = Num(Den) /\ BalanceOf(2) = Num(-3 * Den) /\ BalanceOf(3) = Num(2 * Den)
    /\ payments[1] = <<[from |-> savePlayers[1][2].name, to |-> savePlayers[1][3].name,
                        amount |-> 200],
                       [from |-> savePlayers[1][2].name, to |-> savePlayers[1][1].name,
                        amount |-> 100]>>

\* C9's case for the debtors: two debtors of different balances, two creditors.
C9_WitnessDebtors ==
    /\ Returned
    /\ Len(payments[1]) >= 3
    /\ \E j, k \in 1..Len(payments[1]) :
          BalanceNamed(payments[1][j].from).v < BalanceNamed(payments[1][k].from).v

\* x rounded to 2 fractional digits, in cents, for x = v/Den >= 0: the n with
\* n/100 nearest to x, and of the two n a tie has, the larger:
\* -1/2 <= 100 * x - n < 1/2.
RoundCents(v) ==
    CHOOSE n \in {(100 * v) \div Den, (100 * v) \div Den + 1} :
        /\ 2 * (100 * v - n * Den) < Den
        /\ 2 * (100 * v - n * Den) >= -Den

\* The sum of the numerals typed in field f ("buyIn" or "cashOut").
SumField(ps, f) ==
    LET RECURSIVE Upto(_)
        Upto(n) == IF n = 0 THEN 0 ELSE Upto(n - 1) + ps[n][f].units
    IN  Upto(Len(ps))

\* The list got as far as checkTotalBalance.
BalanceChecked == Passed \/ pc[1] = "unbalanced"

\* C7: checkTotalBalance is true exactly when the sum of the buy-ins rounded to 2
\* fractional digits equals the sum of the cash-outs rounded to 2 fractional
\* digits, each sum rounded on its own.  Stated for the lists of numerals.
C7_IsBalanced ==
    (BalanceChecked /\ AllNumeric(savePlayers[1])) =>
        (Passed <=> RoundCents(SumField(savePlayers[1], "buyIn"))
                      = RoundCents(SumField(savePlayers[1], "cashOut")))

\* C7's case: totals less than 0.01 apart that round to different cents, found
\* unbalanced.
C7_Witness ==
    /\ pc[1] = "unbalanced"
    /\ AllNumeric(savePlayers[1])
    /\ SumField(savePlayers[1], "buyIn") # SumField(savePlayers[1], "cashOut")
    /\ 100 * Abs(SumField(savePlayers[1], "buyIn") - SumField(savePlayers[1], "cashOut")) < Den

\* C7's case of a tie: the buy-ins sum to a total half-way between two cents and
\* the cash-outs to a larger total of the same rounded cents, found balanced.
C7_WitnessTie ==
    /\ Passed
    /\ AllNumeric(savePlayers[1])
    /\ (100 * SumField(savePlayers[1], "buyIn")) % Den = Den \div 2
    /\ SumField(savePlayers[1], "cashOut") > SumField(savePlayers[1], "buyIn")

\* C7's case of a tie, below: the buy-ins sum to a total half-way between two cents
\* and the cash-outs to 1/Den less, found unbalanced.
C7_WitnessTieBelow ==
    /\ pc[1] = "unbalanced"
    /\ AllNumeric(savePlayers[1])
    /\ (100 * SumField(savePlayers[1], "buyIn")) % Den = Den \div 2
    /\ SumField(savePlayers[1], "cashOut") = SumField(savePlayers[1], "buyIn") - 1

\* C7's case of a tie in the cash-outs: they sum to a total half-way between two
\* cents and the buy-ins to 1/Den more, found balanced.
C7_WitnessTieCashOut ==
    /\ Passed
    /\ AllNumeric(savePlayers[1])
    /\ (100 * SumField(savePlayers[1], "cashOut")) % Den = Den \div 2
    /\ SumField(savePlayers[1], "buyIn") = SumField(savePlayers[1], "cashOut") + 1

\* C7's other case: totals that differ and round to the same cents, found balanced.
C7_WitnessBalanced ==
    /\ Passed
    /\ AllNumeric(savePlayers[1])
    /\ SumField(savePlayers[1], "buyIn") # SumField(savePlayers[1], "cashOut")

\* The players with a balance that is a number other than 0.
NonZero == {i \in 1..Len(savePlayers[1]) : ~BalanceOf(i).nan /\ BalanceOf(i).v # 0}

RECURSIVE SumOver(_)
SumOver(S) ==
    IF S = {} THEN 0
    ELSE LET i == CHOOSE i \in S : TRUE IN BalanceOf(i).v + SumOver(S \ {i})

\* The largest number of parts in a partition of S (whose balances sum to 0) into
\* non-empty sets whose balances sum to 0.
RECURSIVE MaxParts(_)
MaxParts(S) ==
    IF S = {} THEN 0
    ELSE LET x == CHOOSE x \in S : \A y \in S : x <= y
             parts == {1 + MaxParts(S \ T) :
                         T \in {T \in SUBSET S : x \in T /\ SumOver(T) = 0}}
         IN  CHOOSE m \in parts : \A k \in parts : k <= m

\* The fewest transfers that zero every balance, when the balances sum to 0: a set
\* of k players whose balances sum to 0 and of which no proper subset does needs
\* k - 1 transfers, so the fewest is the players less the most such sets.
FewestTransfers == Cardinality(NonZero) - MaxParts(NonZero)

ExactlyBalanced == AllNumeric(savePlayers[1]) /\ SumOver(1..Len(savePlayers[1])) = 0

\* C2 (as claimed): for a validated list whose balances sum to 0, no set of
\* transfers that zeroes every balance is smaller than the list returned.
C2_Minimal ==
    (Returned /\ ExactlyBalanced) => Len(payments[1]) <= FewestTransfers

Max(a, b) == IF a > b THEN a ELSE b

\* C2 (amended): the list returned has at most one transfer fewer than there are
\* creditors and debtors, and none when there are none.
C2_AtMostOneLess ==
    Len(payments[1]) <=
        Max(0, Cardinality({i \in 1..Len(savePlayers[1]) : FGt(BalanceOf(i), Num(0))})
                 + Cardinality({i \in 1..Len(savePlayers[1]) : FLt(BalanceOf(i), Num(0))}) - 1)

\* C2's case: a list returned that has one transfer fewer than there are creditors
\* and debtors while fewer transfers would do.
C2_Witness ==
    /\ Returned
    /\ ExactlyBalanced
    /\ Len(payments[1]) = Cardinality(NonZero) - 1
    /\ Len(payments[1]) > FewestTransfers

\* No saveGame or deleteGame invocation is between its getItem and its setItem.
Quiescent ==
    /\ \A t \in Saves : pc[t] \in {"idle", "duplicate", "incomplete", "unbalanced", "done"}
    /\ \A d \in Deletes : dpc[d] \notin {"getItem", "filter", "setItem"}

\* The id saveGame invocation t gave its game.
SavedId(t) == updatedGames[t][Len(updatedGames[t])].id

\* C10 (as claimed): once every invocation has finished, storage holds every game
\* whose saveGame completed its write and whose id no deleteGame was given.
C10_NoLostSave ==
    Quiescent =>
        \A t \in Saves :
            pc[t] = "done" =>
                \/ \E d \in Deletes : dpc[d] = "done" /\ dtarget[d] = SavedId(t)
                \/ \E k \in 1..Len(storage.games) : storage.games[k].id = SavedId(t)

\* C11 (as claimed): from the start of calculatePayments to its return the creditor
\* pointer never goes back: it is not reset between debtors.
C11_PointerOnlyAdvances ==
    [][(pc[1] \in {"forEach", "while"} /\ pc'[1] \in {"forEach", "while"})
          => winnerIndex'[1] >= winnerIndex[1]]_vars

\* C11 (amended): the creditor pointer starts at index 0 for every debtor and
\* advances by one with each iteration of that debtor's loop; between debtors it
\* is reset to 0.  Each creditor's residual balance carries over from one debtor
\* to the next, and an iteration only lowers the balance of the creditor at the
\* pointer, by what is taken off the debt.
C11_PointerPerDebtor ==
    [][/\ (pc[1] = "forEach" /\ pc'[1] = "while") =>
             /\ winnerIndex'[1] = 0
             /\ winners'[1] = winners[1]
       /\ (pc[1] = "while" /\ pc'[1] = "while") =>
             /\ winnerIndex'[1] = winnerIndex[1] + 1
             /\ \A k \in 1..Len(winners[1]) :
                   IF k = winnerIndex[1] + 1
                   THEN winners[1][k].balance.v - winners'[1][k].balance.v
                          = remainingDebt[1].v - remainingDebt'[1].v
                   ELSE winners'[1][k] = winners[1][k]
       /\ (pc[1] = "while" /\ pc'[1] = "forEach") =>
             /\ winners'[1] = winners[1]
             /\ winnerIndex'[1] = winnerIndex[1]]_vars

\* C11's case: a second debtor starts at creditor 0 after the first debtor moved
\* the pointer on, and finds the first debtor's payments taken off the creditors.
C11_Witness ==
    /\ pc[1] = "while"
    /\ loserIndex[1] >= 2
    /\ winnerIndex[1] = 0
    /\ Len(payments[1]) >= 2
    /\ winners[1] # winnersOf(savePlayers[1])
    /\ \E k \in 1..Len(winners[1]) : winners[1][k].balance.v > 0

====
